---- MODULE Spec2Model ----
(***************************************************************************)
(* Editing session of the manual motor-unit editor (MUeditManual).         *)
(*                                                                         *)
(* Indices: grids and units are numbered from 1 here (Python: from 0);     *)
(* sample indices and discharge times keep the Python values (0-based),    *)
(* so sample s of a pulse train pt is pt[s + 1].                           *)
(* A discharge-time array is a record [float, t]: float is TRUE for a      *)
(* float64 numpy array (np.array([]) and np.array([1, fsamp])), t is the   *)
(* sequence of its values.                                                 *)
(* SIL values are in tenths (9 stands for 0.9).                            *)
(***************************************************************************)
EXTENDS Integers, Sequences, FiniteSets, TLC

VARIABLES
    MUedition,      \* FALSE until a file is imported (self.MUedition is None)
    fsamp,          \* MUedition["signal"]["fsamp"]
    Pulsetrain,     \* MUedition["edition"]["Pulsetrain"]: per grid, the rows
    Dischargetimes, \* MUedition["edition"]["Dischargetimes"]: dict keyed (grid, unit)
    silval,         \* MUedition["edition"]["silval"]
    silvalcon,      \* MUedition["edition"]["silvalcon"]
    Backup,         \* self.Backup: lock, Pulsetrain, Dischargetimes
    mu_checkboxes,  \* self.mu_checkboxes: names of the check boxes, in order
    checked,        \* the check boxes whose isChecked() is true
    graphstart,     \* self.graphstart, in sample positions
    graphend,       \* self.graphend, in sample positions
    selection_tool, \* self.selection_tool: the pending rectangle selection
    pc,             \* the handler whose loop is running ("idle": none)
    loop,           \* the local variables of the running loop
    hist            \* history of the run (observation only)

vars == <<MUedition, fsamp, Pulsetrain, Dischargetimes, silval, silvalcon, Backup,
          mu_checkboxes, checked, graphstart, graphend, selection_tool, pc, loop, hist>>

session == <<Pulsetrain, Dischargetimes, silval, silvalcon>>

-----------------------------------------------------------------------------
(* Bounds of the model *)

\* number of electrode grids of an imported file
NGrid == 2
\* most units of one grid in an imported file
MaxMU == 2
\* samples of the recording
SigLen == 6
\* user operations of one run
MaxOps == 4
\* files imported in one run
MaxImports == 1
\* the largest numbers of channels and of samples, the largest extension factor
\* of the calls of the Extender
MaxChannels == 4
MaxSamples == 3
MaxFactor == 4
\* the largest amplitude of a sample of a recomputed activation trace
MaxAmp == 3
\* the largest component of a weight vector and the largest iteration cap of
\* the Separator
MaxWeight == 3
MaxIter == 4
\* the capacity a RecentDatasetsManager is constructed with, the number of
\* dataset files and the largest size of one
max_entries == 3
NPaths == 4
MaxFilesize == 2
\* the number of decomposition output files and the calls on one
\* VisualizationStorage
NVizPaths == 11
MaxStoreOps == 2
\* the recordings loaded into one DecompositionApp and the decomposition
\* workers it starts
NAppFiles == 2
MaxWorkers == 2

\* samples of the recording whose view is navigated, and navigation steps
NavLen == 5
MaxNav == 5

-----------------------------------------------------------------------------
(* Values *)

Samples == 0 .. (SigLen - 1)

\* sampling rates of the imported files: a recording longer than a second,
\* and a recording of exactly one second
FsampSet == {2, SigLen}

\* Backup["Pulsetrain"] is None
NoneTrain == <<>>

\* np.array([])
EmptyArr == [float |-> TRUE, t |-> <<>>]

IntArr(s) == [float |-> FALSE, t |-> s]

ZeroTrain == [i \in 1 .. SigLen |-> 0]

\* np.zeros((1, 2))
ZeroSilcon == << <<0, 0>> >>

Min(S) == CHOOSE x \in S : \A y \in S : x <= y

RECURSIVE SortedSeq(_)
SortedSeq(S) == IF S = {} THEN <<>> ELSE <<Min(S)>> \o SortedSeq(S \ {Min(S)})

Range(s) == {s[i] : i \in DOMAIN s}

\* dict.get(key, default)
Get(d, k, default) == IF k \in DOMAIN d THEN d[k] ELSE default

\* d[key] = value
Put(d, k, v) == [x \in (DOMAIN d) \cup {k} |-> IF x = k THEN v ELSE d[x]]

\* the units of the session, as (grid, unit) keys
Keys(PT) == UNION {{<<g, m>> : m \in 1 .. Len(PT[g])} : g \in DOMAIN PT}

\* the keys in the order of the rows: grid by grid, unit by unit
KeyLess(a, b) == a[1] < b[1] \/ (a[1] = b[1] /\ a[2] < b[2])

RECURSIVE KeySeq(_)
KeySeq(K) ==
    IF K = {} THEN <<>>
    ELSE LET k == CHOOSE x \in K : \A y \in K \ {x} : KeyLess(x, y)
         IN <<k>> \o KeySeq(K \ {k})

\* the first checked check box, in the order of self.mu_checkboxes
FirstChecked(boxes, chk) ==
    boxes[Min({i \in DOMAIN boxes : boxes[i] \in chk})]

\* Pulsetrain[array_idx][mu_idx, :]
Row(PT, k) == PT[k[1]][k[2]]

\* Pulsetrain[array_idx][mu_idx, :] = row
SetRow(PT, k, row) == [PT EXCEPT ![k[1]][k[2]] = row]

-----------------------------------------------------------------------------
(* The numerical routines of core.utils, which the handlers call.  Their   *)
(* code is not part of the sources at hand; they are modelled from the     *)
(* specification, on pulse trains whose samples are 0 (baseline), 1 (a     *)
(* discharge peak) or 2 (a peak of outlier amplitude).                     *)

\* Spike Classifier (4.4): the samples of the high-amplitude cluster
getspikes(pt) == SortedSeq({s \in Samples : pt[s + 1] >= 1})

\* Quality Scorer (4.5): the silhouette of the two amplitude clusters,
\* a function of the pulse train alone; a train without a peak has none
getsil(pt) ==
    LET peaks == {s \in Samples : pt[s + 1] = 1}
        outl  == {s \in Samples : pt[s + 1] = 2}
    IN IF peaks \cup outl = {} THEN 0
       ELSE IF 5 + Cardinality(peaks) - Cardinality(outl) > 9 THEN 9
       ELSE 5 + Cardinality(peaks) - Cardinality(outl)

\* continuous SIL (4.5): (window-centre, local SIL) pairs
refinesil(pt, dt) == << <<dt.t[1], getsil(pt)>> >>

\* outlier rejection (4.4 e): the discharges of outlier amplitude are dropped
remove_outliers(pt, dt) ==
    [dt EXCEPT !.t = SelectSeq(dt.t, LAMBDA x : ~(x \in Samples /\ pt[x + 1] = 2))]

\* the pulse trains of the model: three discharges at the start, a discharge
\* at every sample with an outlier at the end, two discharges at the end
TrainA == [i \in 1 .. SigLen |-> IF i <= 3 THEN 1 ELSE 0]
TrainB == [i \in 1 .. SigLen |-> IF i = SigLen THEN 2 ELSE 1]
TrainC == [i \in 1 .. SigLen |-> IF i >= SigLen - 1 THEN 1 ELSE 0]

\* the pulse trains a filter re-estimation can produce from the EMG signal
RefinedTrains == {TrainB, TrainC}

\* Filter Refiner (4.7), single window: a recomputed pulse train and the
\* discharge times classified from it
extendfilter(pt, dt, idx) ==
    {[pt |-> p, dt |-> IntArr(getspikes(p))] : p \in RefinedTrains}

\* manual region edits (selection_tools.process_selection)
add_spikes(dt, s) == IntArr(SortedSeq(Range(dt.t) \cup {s}))
delete_spikes(dt, s) == [dt EXCEPT !.t = SelectSeq(dt.t, LAMBDA x : x # s)]

-----------------------------------------------------------------------------
(* Helpers of the handlers *)

\* np.array([1, fsamp])
Sentinel(fs) == [float |-> TRUE, t |-> <<1, fs>>]

\* calculate_silval(array_idx, mu_idx): the three records afterwards
calculate_silval(PT, DT, SV, SC, k) ==
    LET discharge_times == Get(DT, k, EmptyArr)
        ok == k[1] \in DOMAIN PT /\ k[2] \in DOMAIN PT[k[1]]
    IN [DT |-> Put(DT, k, discharge_times),
        SV |-> Put(SV, k, IF Len(discharge_times.t) > 2 /\ ok
                          THEN getsil(PT[k[1]][k[2]]) ELSE 0),
        SC |-> Put(SC, k, IF Len(discharge_times.t) > 2 /\ ok
                          THEN refinesil(PT[k[1]][k[2]], discharge_times)
                          ELSE ZeroSilcon)]

\* display_selected_mus(checked_mus): with one unit selected its state is
\* stored in the backup
display_selected_mus(B, PT, DT, chk) ==
    IF Cardinality(chk) = 1
    THEN LET k == CHOOSE x \in chk : TRUE
         IN [B EXCEPT !.Pulsetrain = PT[k[1]][k[2]],
                      !.Dischargetimes = Get(DT, k, EmptyArr)]
    ELSE B

\* mu_checkbox_state_changed(): nothing is displayed when no box is checked
mu_checkbox_state_changed(B, PT, DT, chk) ==
    IF chk = {} THEN B ELSE display_selected_mus(B, PT, DT, chk)

\* the unit whose snapshot the backup holds after mu_checkbox_state_changed
OwnerAfterDisplay(owner, chk) ==
    IF Cardinality(chk) = 1 THEN CHOOSE x \in chk : TRUE ELSE owner

\* update_mu_checkboxes(): the boxes are rebuilt and the first one is checked
FirstBox(PT) == IF Keys(PT) = {} THEN {} ELSE {KeySeq(Keys(PT))[1]}

NoUnit == <<0, 0>>

\* the history after a user operation named op
Did(op) ==
    [n |-> hist.n + 1, imports |-> hist.imports, owner |-> hist.owner, op |-> op,
     unit |-> NoUnit, prePT |-> NoneTrain, preDT |-> EmptyArr, lockAtStart |-> 0,
     flagged |-> {}, extPT |-> NoneTrain, extDT |-> EmptyArr, undoEdit |-> FALSE,
     undoOwner |-> NoUnit, cancelled |-> FALSE, done |-> <<>>, removed |-> 0,
     grids |-> 0, wins |-> IF pc = "extend" THEN hist.wins ELSE <<>>]

\* the user may start an operation: no loop is running, the run is not over
CanStart == pc = "idle" /\ hist.n < MaxOps

\* a handler keyPressEvent dispatches may start as well inside the call
\* QApplication.processEvents() that ends an iteration of the full-signal
\* extension, which runs with no modal dialog; the batch loops show a
\* window-modal progress dialog, which takes the key presses
CanStartByKey ==
    /\ pc = "idle" \/ (pc = "extend" /\ loop.yields > 0)
    /\ hist.n < MaxOps

-----------------------------------------------------------------------------
(* The state after construction: MUeditManual.__init__ *)

\* the object after __init__, apart from the position of the running code
Constructed ==
    /\ MUedition = FALSE
    /\ fsamp = 0
    /\ Pulsetrain = <<>>
    /\ Dischargetimes = <<>>
    /\ silval = <<>>
    /\ silvalcon = <<>>
    /\ Backup = [lock |-> 0, Pulsetrain |-> NoneTrain, Dischargetimes |-> EmptyArr]
    /\ mu_checkboxes = <<>>
    /\ checked = {}
    /\ graphstart = 0
    /\ graphend = 0
    /\ selection_tool = <<>>
    /\ hist = [n |-> 0, imports |-> 0, owner |-> NoUnit, op |-> "init",
               unit |-> NoUnit, prePT |-> NoneTrain, preDT |-> EmptyArr,
               lockAtStart |-> 0, flagged |-> {}, extPT |-> NoneTrain,
               extDT |-> EmptyArr, undoEdit |-> FALSE, undoOwner |-> NoUnit,
               cancelled |-> FALSE, done |-> <<>>, removed |-> 0, grids |-> 0,
               wins |-> <<>>]

Init ==
    /\ Constructed
    /\ pc = "idle"
    /\ loop = <<>>

-----------------------------------------------------------------------------
(* import_data / import_decomposed_file / update_mu_checkboxes *)

\* the decomposition files of the model: the first grid holds up to MaxMU
\* units, which follow each other in the order TrainA, TrainB, TrainC from
\* any first one; a further grid holds no unit or one
Catalogue == <<TrainA, TrainB, TrainC>>
FirstGridRows ==
    {[m \in 1 .. n |-> Catalogue[((o + m) % 3) + 1]] : n \in 0 .. MaxMU, o \in 0 .. 2}
OtherGridRows == {<<>>, <<TrainA>>}
Files == {f \in [1 .. NGrid -> FirstGridRows \cup OtherGridRows] :
            /\ f[1] \in FirstGridRows
            /\ \A g \in 2 .. NGrid : f[g] \in OtherGridRows}

RECURSIVE CalcAll(_, _, _, _, _)
CalcAll(PT, DT, SV, SC, ks) ==
    IF ks = <<>> THEN [DT |-> DT, SV |-> SV, SC |-> SC]
    ELSE LET r == calculate_silval(PT, DT, SV, SC, Head(ks))
         IN CalcAll(PT, r.DT, r.SV, r.SC, Tail(ks))

import_data(file, fs) ==
    LET DT0 == [k \in Keys(file) |-> IntArr(getspikes(file[k[1]][k[2]]))]
        r   == CalcAll(file, DT0, <<>>, <<>>, KeySeq(Keys(file)))
    IN /\ MUedition' = TRUE
       /\ fsamp' = fs
       /\ Pulsetrain' = file
       /\ Dischargetimes' = r.DT
       /\ silval' = r.SV
       /\ silvalcon' = r.SC
       /\ mu_checkboxes' = KeySeq(Keys(file))
       /\ checked' = FirstBox(file)
       /\ Backup' = mu_checkbox_state_changed(Backup, file, r.DT, FirstBox(file))
       /\ graphstart' = 0
       /\ graphend' = SigLen - 1
       /\ hist' = [Did("import") EXCEPT !.imports = @ + 1,
                       !.owner = OwnerAfterDisplay(hist.owner, FirstBox(file))]
       /\ UNCHANGED <<selection_tool, pc, loop>>

ImportData ==
    /\ CanStart
    /\ hist.imports < MaxImports
    /\ \E file \in Files, fs \in FsampSet : import_data(file, fs)

-----------------------------------------------------------------------------
(* A click on the check box of a unit: mu_checkbox_state_changed *)

ToggleCheckbox ==
    /\ CanStart
    /\ MUedition
    /\ \E i \in DOMAIN mu_checkboxes :
        LET k   == mu_checkboxes[i]
            chk == IF k \in checked THEN checked \ {k} ELSE checked \cup {k}
        IN /\ checked' = chk
           /\ Backup' = mu_checkbox_state_changed(Backup, Pulsetrain, Dischargetimes, chk)
           /\ hist' = [Did("toggle") EXCEPT
                           !.owner = IF chk = {} THEN @ ELSE OwnerAfterDisplay(@, chk)]
    /\ UNCHANGED <<MUedition, fsamp, session, mu_checkboxes, graphstart, graphend,
                   selection_tool, pc, loop>>

-----------------------------------------------------------------------------
(* flag_mu_for_deletion_button_pushed *)

\* a slip that zeroes every row of the grid
ZeroGrid(PT, k) == [PT EXCEPT ![k[1]] = [m \in DOMAIN @ |-> ZeroTrain]]

\* Pulsetrain[array_idx][mu_idx, :] = 0
ZeroRow(PT, k) == SetRow(PT, k, ZeroTrain)

\* the loop over the checked boxes: each unit is stored in the backup, then
\* zeroed and given the sentinel discharge times
RECURSIVE FlagLoop(_, _, _, _, _)
FlagLoop(PT, DT, B, fs, ks) ==
    IF ks = <<>> THEN [PT |-> PT, DT |-> DT, B |-> B]
    ELSE LET k == Head(ks)
         IN FlagLoop(ZeroRow(PT, k),
                     Put(DT, k, Sentinel(fs)),
                     [B EXCEPT !.Pulsetrain = PT[k[1]][k[2]],
                               !.Dischargetimes = Get(DT, k, EmptyArr)],
                     fs, Tail(ks))

CheckedSeq == SelectSeq(mu_checkboxes, LAMBDA k : k \in checked)

FlagMuForDeletion ==
    /\ CanStart
    /\ MUedition
    /\ LET r == FlagLoop(Pulsetrain, Dischargetimes, Backup, fsamp, CheckedSeq)
       IN /\ Pulsetrain' = r.PT
          /\ Dischargetimes' = r.DT
          /\ Backup' = mu_checkbox_state_changed(r.B, r.PT, r.DT, checked)
          /\ hist' = [Did("flag") EXCEPT
                          !.flagged = checked,
                          !.op = IF Cardinality(checked) = 1 THEN "flag1" ELSE "flag",
                          !.unit = IF Cardinality(checked) = 1
                                   THEN CheckedSeq[1] ELSE NoUnit,
                          !.prePT = IF Cardinality(checked) = 1
                                    THEN Row(Pulsetrain, CheckedSeq[1]) ELSE NoneTrain,
                          !.preDT = IF Cardinality(checked) = 1
                                    THEN Get(Dischargetimes, CheckedSeq[1], EmptyArr)
                                    ELSE EmptyArr,
                          !.owner = IF checked = {} THEN @
                                    ELSE CheckedSeq[Len(CheckedSeq)]]
    /\ UNCHANGED <<MUedition, fsamp, silval, silvalcon, mu_checkboxes, checked,
                   graphstart, graphend, selection_tool, pc, loop>>

-----------------------------------------------------------------------------
(* undo_button_pushed *)

\* the completed edits of one unit, as the history names them
Edits == {"edit", "update", "flag1"}

UndoButtonPushed ==
    /\ CanStart
    /\ IF MUedition /\ Backup.Pulsetrain # NoneTrain /\ checked # {}
       THEN LET k  == FirstChecked(mu_checkboxes, checked)
                PT == SetRow(Pulsetrain, k, Backup.Pulsetrain)
                DT == Put(Dischargetimes, k, Backup.Dischargetimes)
                r  == calculate_silval(PT, DT, silval, silvalcon, k)
            IN /\ Pulsetrain' = PT
               /\ Dischargetimes' = r.DT
               /\ silval' = r.SV
               /\ silvalcon' = r.SC
               /\ Backup' = mu_checkbox_state_changed(Backup, PT, r.DT, checked)
               /\ hist' = [Did("undo") EXCEPT
                               !.undoEdit = hist.op \in Edits /\ hist.unit = k,
                               !.unit = k,
                               !.prePT = IF hist.op \in Edits /\ hist.unit = k
                                         THEN hist.prePT ELSE @,
                               !.preDT = IF hist.op \in Edits /\ hist.unit = k
                                         THEN hist.preDT ELSE @,
                               !.undoOwner = hist.owner,
                               !.owner = OwnerAfterDisplay(hist.owner, checked)]
       ELSE /\ UNCHANGED <<session, Backup>>
            /\ hist' = [Did("undo") EXCEPT !.unit = NoUnit, !.undoOwner = hist.owner]
    /\ UNCHANGED <<MUedition, fsamp, mu_checkboxes, checked, graphstart, graphend,
                   selection_tool, pc, loop>>

-----------------------------------------------------------------------------
(* remove_flagged_mu_button_pushed *)

\* flagged for deletion: zero pulse train and the two sentinel discharge times
IsFlagged(row, dt, fs) ==
    /\ \A i \in DOMAIN row : row[i] = 0
    /\ Len(dt.t) = 2
    /\ dt.t[1] = 1
    /\ dt.t[2] = fs

\* np.where(keep_mask)[0] of one grid
KeepIdx(PT, DT, fs, g) ==
    SelectSeq([m \in 1 .. Len(PT[g]) |-> m],
              LAMBDA m : ~IsFlagged(PT[g][m], Get(DT, <<g, m>>, EmptyArr), fs))

\* a slip that leaves the records of the units kept at their old indices
CleanDictUnshifted(d, PT, DT, fs, n) ==
    LET ks == {k \in DOMAIN d :
                 /\ k[1] <= n
                 /\ k[2] \in Range(KeepIdx(PT, DT, fs, k[1]))}
    IN [k \in ks |-> d[k]]

\* a record of the units kept, moved to the new indices
CleanDict(d, PT, DT, fs, n) ==
    LET ks == {k \in (1 .. n) \X (1 .. MaxMU + 1) :
                 /\ k[2] <= Len(KeepIdx(PT, DT, fs, k[1]))
                 /\ <<k[1], KeepIdx(PT, DT, fs, k[1])[k[2]]>> \in DOMAIN d}
    IN [k \in ks |-> d[<<k[1], KeepIdx(PT, DT, fs, k[1])[k[2]]>>]]

\* the clean structures after the loop has processed the first n grids
remove_flagged(PT, DT, SV, SC, fs, n) ==
    [PT |-> [g \in 1 .. n |->
                [j \in 1 .. Len(KeepIdx(PT, DT, fs, g)) |-> PT[g][KeepIdx(PT, DT, fs, g)[j]]]],
     DT |-> CleanDict(DT, PT, DT, fs, n),
     SV |-> CleanDict(SV, PT, DT, fs, n),
     SC |-> CleanDict(SC, PT, DT, fs, n)]

\* cancellation is polled before each grid: n grids are processed before the
\* Cancel button is seen (all of them when it is never pressed)
RemoveFlaggedMu ==
    /\ CanStart
    /\ MUedition
    /\ \E n \in 0 .. Len(Pulsetrain) :
        LET r == remove_flagged(Pulsetrain, Dischargetimes, silval, silvalcon, fsamp, n)
        IN /\ Pulsetrain' = r.PT
           /\ Dischargetimes' = r.DT
           /\ silval' = r.SV
           /\ silvalcon' = r.SC
           /\ mu_checkboxes' = KeySeq(Keys(r.PT))
           /\ checked' = FirstBox(r.PT)
           /\ Backup' = mu_checkbox_state_changed(Backup, r.PT, r.DT, FirstBox(r.PT))
           /\ hist' = [Did("remove_flagged") EXCEPT
                           !.cancelled = n < Len(Pulsetrain),
                           !.grids = n,
                           !.flagged = IF hist.op \in {"flag", "flag1"}
                                       THEN hist.flagged ELSE {},
                           !.owner = IF Keys(r.PT) = {} THEN NoUnit
                                     ELSE OwnerAfterDisplay(@, FirstBox(r.PT))]
    /\ UNCHANGED <<MUedition, fsamp, graphstart, graphend, selection_tool, pc, loop>>

-----------------------------------------------------------------------------
(* Manual region edits: add_spikes_button_pushed, delete_spikes_button_pushed, *)
(* delete_dr_button_pushed and handle_selection_complete                      *)

\* "Store current state for undo"
StoreBackup(B, PT, DT, k) ==
    [B EXCEPT !.Pulsetrain = PT[k[1]][k[2]], !.Dischargetimes = Get(DT, k, EmptyArr)]

\* the history when an edit of unit k begins
Begin(op, k) ==
    [Did(op) EXCEPT !.unit = k, !.prePT = Row(Pulsetrain, k),
                    !.preDT = Get(Dischargetimes, k, EmptyArr), !.owner = k,
                    !.lockAtStart = Backup.lock]

\* the button of a region edit: the unit is stored and a selection tool made
SelectionButtonPushed(action) ==
    /\ CanStart
    /\ MUedition
    /\ checked # {}
    /\ LET k == FirstChecked(mu_checkboxes, checked)
       IN /\ Backup' = StoreBackup(Backup, Pulsetrain, Dischargetimes, k)
          /\ selection_tool' = <<action, k>>
          /\ hist' = Begin("select", k)
    /\ UNCHANGED <<MUedition, fsamp, session, mu_checkboxes, checked, graphstart,
                   graphend, pc, loop>>

AddSpikesButtonPushed == SelectionButtonPushed("add_spikes")
DeleteSpikesButtonPushed == SelectionButtonPushed("delete_spikes")
DeleteDrButtonPushed == SelectionButtonPushed("delete_dr")

\* the samples a rectangle of the model selects
Selections == {0, SigLen - 1}

\* process_selection: the discharge times after the region edit at sample s
process_selection(action, dt, s) ==
    IF action = "add_spikes" THEN add_spikes(dt, s) ELSE delete_spikes(dt, s)

\* the rectangle is drawn: handle_selection_complete
HandleSelectionComplete ==
    /\ pc = "idle"
    /\ selection_tool # <<>>
    /\ selection_tool[2] \in Keys(Pulsetrain)
    /\ \E s \in Selections :
        LET k  == selection_tool[2]
            DT == Put(Dischargetimes, k,
                      process_selection(selection_tool[1],
                                        Get(Dischargetimes, k, EmptyArr), s))
            r  == calculate_silval(Pulsetrain, DT, silval, silvalcon, k)
        IN /\ Dischargetimes' = r.DT
           /\ silval' = r.SV
           /\ silvalcon' = r.SC
           /\ Backup' = IF k \in checked
                        THEN mu_checkbox_state_changed(Backup, Pulsetrain, r.DT, checked)
                        ELSE Backup
           /\ hist' = [hist EXCEPT
                           !.op = IF hist.op = "select" /\ hist.unit = k
                                  THEN "edit" ELSE "late_edit",
                           !.owner = IF k \in checked
                                     THEN OwnerAfterDisplay(@, checked) ELSE @]
    /\ selection_tool' = <<>>
    /\ UNCHANGED <<MUedition, fsamp, Pulsetrain, mu_checkboxes, checked, graphstart,
                   graphend, pc, loop>>

-----------------------------------------------------------------------------
(* lock_spikes_button_pushed *)

LockSpikesButtonPushed ==
    /\ CanStartByKey
    /\ Backup' = [Backup EXCEPT !.lock = 1]
    /\ hist' = Did("lock")
    /\ UNCHANGED <<MUedition, fsamp, session, mu_checkboxes, checked, graphstart,
                   graphend, selection_tool, pc, loop>>

-----------------------------------------------------------------------------
(* remove_outliers_button_pushed *)

RemoveOutliersButtonPushed ==
    /\ CanStartByKey
    /\ MUedition
    /\ checked # {}
    /\ LET k == FirstChecked(mu_checkboxes, checked)
           B == StoreBackup(Backup, Pulsetrain, Dischargetimes, k)
       IN IF k \notin DOMAIN Dischargetimes \/ Len(Dischargetimes[k].t) <= 1
          THEN /\ Backup' = B
               /\ hist' = [Begin("none", k) EXCEPT !.unit = NoUnit]
               /\ UNCHANGED Dischargetimes
          ELSE LET DT == Put(Dischargetimes, k,
                             remove_outliers(Row(Pulsetrain, k), Dischargetimes[k]))
               IN /\ Dischargetimes' = DT
                  /\ Backup' = mu_checkbox_state_changed(B, Pulsetrain, DT, checked)
                  /\ hist' = [Begin("edit", k) EXCEPT
                                  !.owner = OwnerAfterDisplay(k, checked)]
    /\ UNCHANGED <<MUedition, fsamp, Pulsetrain, silval, silvalcon, mu_checkboxes,
                   checked, graphstart, graphend, selection_tool, pc, loop>>

-----------------------------------------------------------------------------
(* update_mu_filter_button_pushed *)

\* np.where((time > graphstart) & (time < graphend))[0]
ViewIdx(gs, ge) == {s \in Samples : s > gs /\ s < ge}

\* a slip that forgets the lock
apply_update_unlocked(lock, oldDT, pt, dt) == [pt |-> pt, dt |-> dt, lock |-> lock]

\* "Handle spike locking": the unit's pulse train, its discharge times and the
\* lock after the update with the recomputed pt and dt
apply_update(lock, oldDT, pt, dt) ==
    IF lock = 1 THEN [pt |-> pt, dt |-> oldDT, lock |-> 0]
    ELSE [pt |-> pt, dt |-> dt, lock |-> lock]

UpdateMuFilterButtonPushed ==
    /\ CanStartByKey
    /\ MUedition
    /\ checked # {}
    /\ LET k == FirstChecked(mu_checkboxes, checked)
           B == StoreBackup(Backup, Pulsetrain, Dischargetimes, k)
       IN IF ViewIdx(graphstart, graphend) = {} \/ k \notin DOMAIN Dischargetimes
          THEN /\ Backup' = B
               /\ hist' = [Begin("none", k) EXCEPT !.unit = NoUnit]
               /\ UNCHANGED session
          ELSE \E out \in extendfilter(Row(Pulsetrain, k), Dischargetimes[k],
                                       ViewIdx(graphstart, graphend)) :
               LET u  == apply_update(B.lock, Dischargetimes[k], out.pt, out.dt)
                   PT == SetRow(Pulsetrain, k, u.pt)
                   DT == Put(Dischargetimes, k, u.dt)
                   r  == calculate_silval(PT, DT, silval, silvalcon, k)
               IN /\ Pulsetrain' = PT
                  /\ Dischargetimes' = r.DT
                  /\ silval' = r.SV
                  /\ silvalcon' = r.SC
                  /\ Backup' = mu_checkbox_state_changed([B EXCEPT !.lock = u.lock],
                                                         PT, r.DT, checked)
                  /\ hist' = [Begin("update", k) EXCEPT
                                  !.extPT = out.pt,
                                  !.extDT = out.dt,
                                  !.owner = OwnerAfterDisplay(k, checked)]
    /\ UNCHANGED <<MUedition, fsamp, mu_checkboxes, checked, graphstart, graphend,
                   selection_tool, pc, loop>>

-----------------------------------------------------------------------------
(* extend_mu_filter_button_pushed: the handler up to its first loop, one    *)
(* iteration of the forward or of the backward loop, and the end            *)

\* the loop variables when a loop has run out: the backward loop follows the
\* forward one, from the window the handler started with
NextLoop(l) ==
    IF l.phase = "fwd" /\ l.left = 0
    THEN [l EXCEPT !.phase = "bwd", !.left = l.lo \div l.step, !.ilo = l.lo, !.ihi = l.hi]
    ELSE l

ExtendMuFilterButtonPushed ==
    /\ CanStart
    /\ MUedition
    /\ checked # {}
    /\ LET k   == FirstChecked(mu_checkboxes, checked)
           cur == ViewIdx(graphstart, graphend)
           lo  == Min(cur)
           hi  == lo + Cardinality(cur) - 1
           step == Cardinality(cur) \div 2
       IN /\ Backup' = StoreBackup(Backup, Pulsetrain, Dischargetimes, k)
          /\ IF cur = {}
             THEN /\ UNCHANGED <<graphstart, graphend, pc, loop>>
                  /\ hist' = [Begin("none", k) EXCEPT !.unit = NoUnit]
             ELSE /\ graphstart' = 0
                  /\ graphend' = SigLen - 1
                  /\ IF step = 0
                     THEN /\ UNCHANGED <<pc, loop>>
                          /\ hist' = [Begin("raised", k) EXCEPT !.unit = NoUnit]
                     ELSE /\ pc' = "extend"
                          /\ loop' = NextLoop([k |-> k, lo |-> lo, hi |-> hi, step |-> step,
                                               phase |-> "fwd",
                                               left |-> (SigLen - hi) \div step,
                                               ilo |-> lo, ihi |-> hi, yields |-> 0])
                          /\ hist' = Begin("extend", k)
    /\ UNCHANGED <<MUedition, fsamp, session, mu_checkboxes, checked, selection_tool>>

\* the window moved by one step, cut at the ends of the signal
MovedLo(l) == IF l.phase = "fwd" THEN l.ilo + l.step
              ELSE IF l.ilo - l.step < 0 THEN 0 ELSE l.ilo - l.step
MovedHi(l) == IF l.phase = "fwd"
              THEN (IF l.ihi + l.step > SigLen - 1 THEN SigLen - 1 ELSE l.ihi + l.step)
              ELSE l.ihi - l.step

\* the pulse train and the discharge times a step of the extension stores
extend_store(lock, oldDT, pt, dt) == [pt |-> pt, dt |-> dt]

ExtendStep ==
    /\ pc = "extend"
    /\ loop.left > 0
    /\ IF MovedLo(loop) > MovedHi(loop)
       THEN /\ loop' = NextLoop([loop EXCEPT !.left = 0])
            /\ UNCHANGED <<session, Backup, hist, pc>>
       ELSE IF loop.k \notin DOMAIN Dischargetimes
       THEN /\ pc' = "idle"
            /\ loop' = <<>>
            /\ hist' = [hist EXCEPT !.op = "raised"]
            /\ UNCHANGED <<session, Backup>>
       ELSE \E out \in extendfilter(Row(Pulsetrain, loop.k), Dischargetimes[loop.k],
                                    MovedLo(loop) .. MovedHi(loop)) :
            LET u  == extend_store(Backup.lock, Dischargetimes[loop.k], out.pt, out.dt)
                PT == SetRow(Pulsetrain, loop.k, u.pt)
                DT == Put(Dischargetimes, loop.k, u.dt)
            IN /\ Pulsetrain' = PT
               /\ Dischargetimes' = DT
               /\ Backup' = mu_checkbox_state_changed(Backup, PT, DT, checked)
               /\ loop' = NextLoop([loop EXCEPT !.left = @ - 1,
                                                !.yields = @ + 1,
                                                !.ilo = MovedLo(loop),
                                                !.ihi = MovedHi(loop)])
               /\ hist' = [hist EXCEPT !.extPT = out.pt,
                                       !.extDT = out.dt,
                                       !.wins = Append(@, [phase |-> loop.phase,
                                                           lo |-> MovedLo(loop),
                                                           hi |-> MovedHi(loop)]),
                                       !.owner = OwnerAfterDisplay(@, checked)]
               /\ UNCHANGED <<silval, silvalcon, pc>>
    /\ UNCHANGED <<MUedition, fsamp, mu_checkboxes, checked, graphstart, graphend,
                   selection_tool>>

ExtendEnd ==
    /\ pc = "extend"
    /\ loop.phase = "bwd"
    /\ loop.left = 0
    /\ LET r == calculate_silval(Pulsetrain, Dischargetimes, silval, silvalcon, loop.k)
       IN /\ Dischargetimes' = r.DT
          /\ silval' = r.SV
          /\ silvalcon' = r.SC
          /\ Backup' = mu_checkbox_state_changed(Backup, Pulsetrain, r.DT, checked)
          /\ hist' = [hist EXCEPT !.op = IF @ = "extend" THEN "edit" ELSE "mixed_edit",
                                  !.owner = OwnerAfterDisplay(@, checked)]
    /\ pc' = "idle"
    /\ loop' = <<>>
    /\ UNCHANGED <<MUedition, fsamp, Pulsetrain, mu_checkboxes, checked, graphstart,
                   graphend, selection_tool>>

-----------------------------------------------------------------------------
(* remove_all_outliers_button_pushed and update_all_mu_filters_button_pushed: *)
(* the start, one iteration of the loop over the units, and the end           *)

BatchStart(name) ==
    /\ CanStart
    /\ MUedition
    /\ pc' = name
    /\ loop' = [i |-> 1, ks |-> KeySeq(Keys(Pulsetrain)), cancelled |-> FALSE]
    /\ hist' = Did(name)
    /\ UNCHANGED <<MUedition, fsamp, session, Backup, mu_checkboxes, checked,
                   graphstart, graphend, selection_tool>>

RemoveAllOutliersButtonPushed == BatchStart("outl_all")
UpdateAllMuFiltersButtonPushed == BatchStart("upd_all")

\* the loop goes on: the Cancel button has not been seen
Polling(name) == pc = name /\ ~loop.cancelled /\ loop.i <= Len(loop.ks)

\* a loop that goes on with the next unit after the Cancel button was seen
IgnoreCancel ==
    /\ hist' = [hist EXCEPT !.cancelled = TRUE]
    /\ UNCHANGED <<session, pc, loop>>

\* progress.wasCanceled() is true: the loop is left, nothing else is done
SeeCancel ==
    /\ loop' = [loop EXCEPT !.cancelled = TRUE]
    /\ hist' = [hist EXCEPT !.cancelled = TRUE]
    /\ UNCHANGED <<session, pc>>

\* what one unit of the batch leaves in the history
Processed(k, PT, DT, SV) ==
    [hist EXCEPT !.done = Append(@, [k |-> k, pt |-> Row(PT, k),
                                     dt |-> Get(DT, k, EmptyArr),
                                     sil |-> Get(SV, k, 0)])]

RemoveAllOutliersStep ==
    /\ Polling("outl_all")
    /\ \/ SeeCancel
       \/ LET k  == loop.ks[loop.i]
              dt == Get(Dischargetimes, k, EmptyArr)
              DT == Put(Dischargetimes, k, remove_outliers(Row(Pulsetrain, k), dt))
              r  == calculate_silval(Pulsetrain, DT, silval, silvalcon, k)
          IN /\ IF Len(dt.t) > 1
                THEN /\ Dischargetimes' = r.DT
                     /\ silval' = r.SV
                     /\ silvalcon' = r.SC
                     /\ hist' = Processed(k, Pulsetrain, r.DT, r.SV)
                ELSE /\ UNCHANGED <<Dischargetimes, silval, silvalcon>>
                     /\ hist' = Processed(k, Pulsetrain, Dischargetimes, silval)
             /\ loop' = [loop EXCEPT !.i = @ + 1]
             /\ UNCHANGED pc
    /\ UNCHANGED <<MUedition, fsamp, Pulsetrain, Backup, mu_checkboxes, checked,
                   graphstart, graphend, selection_tool>>

\* the spikes update-all-filters keeps of a recomputed pulse train: the peaks
\* of the high cluster; among SigLen samples none is above mean + 3 std
classify(pt) == IntArr(getspikes(pt))

UpdateAllMuFiltersStep ==
    /\ Polling("upd_all")
    /\ \/ SeeCancel
       \/ LET k  == loop.ks[loop.i]
              dt == Get(Dischargetimes, k, EmptyArr)
          IN /\ IF Len(dt.t) <= 1
                THEN /\ UNCHANGED <<session, pc>>
                     /\ loop' = [loop EXCEPT !.i = @ + 1]
                     /\ hist' = Processed(k, Pulsetrain, Dischargetimes, silval)
                ELSE IF dt.float
                THEN \* extended_emg[:, discharge_times] raises IndexError
                     /\ pc' = "idle"
                     /\ loop' = <<>>
                     /\ hist' = [hist EXCEPT !.op = "raised"]
                     /\ UNCHANGED session
                ELSE \E pt \in RefinedTrains :
                     LET PT == SetRow(Pulsetrain, k, pt)
                         DT == Put(Dischargetimes, k, classify(pt))
                         r  == calculate_silval(PT, DT, silval, silvalcon, k)
                     IN /\ Pulsetrain' = PT
                        /\ Dischargetimes' = r.DT
                        /\ silval' = r.SV
                        /\ silvalcon' = r.SC
                        /\ loop' = [loop EXCEPT !.i = @ + 1]
                        /\ hist' = [Processed(k, PT, r.DT, r.SV) EXCEPT !.extPT = pt]
                        /\ UNCHANGED pc
    /\ UNCHANGED <<MUedition, fsamp, Backup, mu_checkboxes, checked,
                   graphstart, graphend, selection_tool>>

\* after the loop: progress.setValue(100) and mu_checkbox_state_changed()
BatchEnd ==
    /\ pc \in {"outl_all", "upd_all"}
    /\ loop.cancelled \/ loop.i > Len(loop.ks)
    /\ Backup' = mu_checkbox_state_changed(Backup, Pulsetrain, Dischargetimes, checked)
    /\ hist' = [hist EXCEPT !.op = "batch_end",
                            !.owner = IF checked = {} THEN @
                                      ELSE OwnerAfterDisplay(@, checked)]
    /\ pc' = "idle"
    /\ loop' = <<>>
    /\ UNCHANGED <<MUedition, fsamp, session, mu_checkboxes, checked, graphstart,
                   graphend, selection_tool>>

-----------------------------------------------------------------------------
(* Duplicate Resolver (4.6): remove_duplicates and                          *)
(* remove_duplicates_between_arrays of core.utils, modelled from the        *)
(* specification                                                            *)

\* round(fsamp / 40), rounding half to even as Python does
Round40(fs) ==
    IF fs % 40 < 20 THEN fs \div 40
    ELSE IF fs % 40 > 20 THEN fs \div 40 + 1
    ELSE IF (fs \div 40) % 2 = 0 THEN fs \div 40 ELSE fs \div 40 + 1

Abs(x) == IF x < 0 THEN -x ELSE x

\* the discharges of a that coincide with one of b within the tolerance
Coincident(a, b, lag) ==
    Cardinality({i \in DOMAIN a : \E j \in DOMAIN b : Abs(a[i] - b[j]) <= lag})

MinLen(a, b) == IF Len(a) <= Len(b) THEN Len(a) ELSE Len(b)

\* the coincidence ratio, relative to the smaller unit, is above the threshold 0.3
IsDuplicate(a, b, lag) ==
    /\ MinLen(a, b) > 0
    /\ 10 * (IF Len(a) <= Len(b) THEN Coincident(a, b, lag) ELSE Coincident(b, a, lag))
         > 3 * MinLen(a, b)

\* the SIL of a unit (4.5): 0 with fewer than 3 discharges
unit_sil(pt, dt) == IF Len(dt.t) > 2 THEN getsil(pt) ELSE 0

\* of the units i and j of a list, i is the one discarded: the one of lower
\* SIL, the later one when the SILs are equal
Discarded(pts, dts, i, j, lag) ==
    /\ i # j
    /\ IsDuplicate(dts[i].t, dts[j].t, lag)
    /\ \/ unit_sil(pts[i], dts[i]) < unit_sil(pts[j], dts[j])
       \/ unit_sil(pts[i], dts[i]) = unit_sil(pts[j], dts[j]) /\ i > j

\* the indices of the units kept, in their order
remove_duplicates(pts, dts, lag) ==
    SelectSeq([i \in 1 .. Len(pts) |-> i],
              LAMBDA i : \A j \in 1 .. Len(pts) : ~Discarded(pts, dts, i, j, lag))

-----------------------------------------------------------------------------
(* remove_duplicates_within_grids_button_pushed *)

\* the rows and the discharge times of one grid, as the lists handed over
GridDts(PT, DT, g) == [m \in 1 .. Len(PT[g]) |-> Get(DT, <<g, m>>, EmptyArr)]

\* the loop "Update discharge times and SIL values" of one grid: unit m gets
\* the discharge times of the m-th unit kept
\* a slip that leaves the discharge times stored as they were
StoreUniqueStale(PT, DT, SV, SC, g, udt, m) == [PT |-> PT, DT |-> DT, SV |-> SV, SC |-> SC]

RECURSIVE StoreUnique(_, _, _, _, _, _, _)
StoreUnique(PT, DT, SV, SC, g, udt, m) ==
    IF m > Len(udt) THEN [PT |-> PT, DT |-> DT, SV |-> SV, SC |-> SC]
    ELSE LET r == calculate_silval(PT, Put(DT, <<g, m>>, udt[m]), SV, SC, <<g, m>>)
         IN StoreUnique(PT, r.DT, r.SV, r.SC, g, udt, m + 1)

\* the body of the loop over the grids, for grid g
within_grid(PT, DT, SV, SC, fs, g) ==
    IF Len(PT[g]) = 0 THEN [PT |-> PT, DT |-> DT, SV |-> SV, SC |-> SC]
    ELSE LET dts  == GridDts(PT, DT, g)
             keep == remove_duplicates(PT[g], dts, Round40(fs))
             upt  == [j \in 1 .. Len(keep) |-> PT[g][keep[j]]]
             udt  == [j \in 1 .. Len(keep) |-> dts[keep[j]]]
         IN StoreUnique([PT EXCEPT ![g] = upt], DT, SV, SC, g, udt, 1)

RECURSIVE within_grids(_, _, _, _, _, _)
within_grids(PT, DT, SV, SC, fs, g) ==
    IF g > Len(PT) THEN [PT |-> PT, DT |-> DT, SV |-> SV, SC |-> SC]
    ELSE LET r == within_grid(PT, DT, SV, SC, fs, g)
         IN within_grids(r.PT, r.DT, r.SV, r.SC, fs, g + 1)

\* the session after a handler that ends with update_mu_checkboxes()
Rebuilt(r, op) ==
    /\ Pulsetrain' = r.PT
    /\ Dischargetimes' = r.DT
    /\ silval' = r.SV
    /\ silvalcon' = r.SC
    /\ mu_checkboxes' = KeySeq(Keys(r.PT))
    /\ checked' = FirstBox(r.PT)
    /\ Backup' = mu_checkbox_state_changed(Backup, r.PT, r.DT, FirstBox(r.PT))
    /\ hist' = [Did(op) EXCEPT
                    !.removed = Cardinality(Keys(Pulsetrain)) - Cardinality(Keys(r.PT)),
                    !.owner = IF Keys(r.PT) = {} THEN NoUnit
                              ELSE OwnerAfterDisplay(@, FirstBox(r.PT))]

RemoveDuplicatesWithinGrids ==
    /\ CanStart
    /\ MUedition
    /\ Rebuilt(within_grids(Pulsetrain, Dischargetimes, silval, silvalcon, fsamp, 1),
               "dup_within")
    /\ UNCHANGED <<MUedition, fsamp, graphstart, graphend, selection_tool, pc, loop>>

-----------------------------------------------------------------------------
(* remove_duplicates_between_grids_button_pushed *)

\* "Collect all MUs": the rows, discharge times and grids of all units
AllKeys(PT) == KeySeq(Keys(PT))

\* a slip that indexes the merged collection by the unit's index in its grid
between_dt_local(udt, mu_idx, global_idx) == udt[mu_idx]

\* the discharge times stored for unit mu_idx of a grid: those of the unit
\* kept at position global_idx of the merged collection
between_dt(udt, mu_idx, global_idx) == udt[global_idx]

\* the SIL records after the calls calculate_silval(array_idx, mu_idx) of the
\* loop "Recreate data structures", which read the records of before
RECURSIVE between_sil(_, _, _, _, _)
between_sil(PT, DT, SV, SC, ks) ==
    IF ks = <<>> THEN [SV |-> SV, SC |-> SC]
    ELSE LET r == calculate_silval(PT, DT, SV, SC, Head(ks))
         IN between_sil(PT, r.DT, r.SV, r.SC, Tail(ks))

\* a slip that takes the units of the first grid for every grid
array_indices_first(all, keep, g) ==
    SelectSeq([j \in 1 .. Len(keep) |-> j], LAMBDA j : all[keep[j]][1] = 1)

\* np.where(unique_muscle == array_idx)[0]: the positions, among the units
\* kept, of those of grid g
array_indices(all, keep, g) ==
    SelectSeq([j \in 1 .. Len(keep) |-> j], LAMBDA j : all[keep[j]][1] = g)

between_grids(PT, DT, SV, SC, fs) ==
    LET all  == AllKeys(PT)
        pts  == [i \in 1 .. Len(all) |-> Row(PT, all[i])]
        dts  == [i \in 1 .. Len(all) |-> Get(DT, all[i], EmptyArr)]
        keep == remove_duplicates(pts, dts, Round40(fs))
        idxOf(g) == array_indices(all, keep, g)
        newPT == [g \in 1 .. Len(PT) |->
                    [m \in 1 .. Len(idxOf(g)) |-> pts[keep[idxOf(g)[m]]]]]
        udt   == [j \in 1 .. Len(keep) |-> dts[keep[j]]]
        newDT == [k \in Keys(newPT) |-> between_dt(udt, k[2], idxOf(k[1])[k[2]])]
        sil   == between_sil(PT, DT, SV, SC, KeySeq(Keys(newPT)))
    IN [PT |-> newPT, DT |-> newDT, SV |-> sil.SV, SC |-> sil.SC]

RemoveDuplicatesBetweenGrids ==
    /\ CanStart
    /\ MUedition
    /\ Rebuilt(between_grids(Pulsetrain, Dischargetimes, silval, silvalcon, fsamp),
               "dup_between")
    /\ UNCHANGED <<MUedition, fsamp, graphstart, graphend, selection_tool, pc, loop>>

-----------------------------------------------------------------------------

Next ==
    \/ ImportData
    \/ ToggleCheckbox
    \/ FlagMuForDeletion
    \/ UndoButtonPushed
    \/ RemoveFlaggedMu
    \/ AddSpikesButtonPushed
    \/ DeleteSpikesButtonPushed
    \/ DeleteDrButtonPushed
    \/ HandleSelectionComplete
    \/ LockSpikesButtonPushed
    \/ RemoveOutliersButtonPushed
    \/ UpdateMuFilterButtonPushed
    \/ ExtendMuFilterButtonPushed
    \/ ExtendStep
    \/ ExtendEnd
    \/ RemoveAllOutliersButtonPushed
    \/ UpdateAllMuFiltersButtonPushed
    \/ RemoveAllOutliersStep
    \/ UpdateAllMuFiltersStep
    \/ BatchEnd
    \/ RemoveDuplicatesWithinGrids
    \/ RemoveDuplicatesBetweenGrids

Spec == Init /\ [][Next]_vars

-----------------------------------------------------------------------------
(* Extender (4.1): extend_emg of core.utils, called by                     *)
(* update_all_mu_filters_button_pushed on the array it has allocated        *)

\* the numbers of channels, of samples and the extension factors of the calls
ChannelCounts == 0 .. MaxChannels
SampleCounts == (0 .. MaxSamples) \cup {10000}
ExtensionFactors == 1 .. MaxFactor

\* an allocation that forgets the R - 1 columns of the delays
extended_alloc_unpadded(C, N, R) == [rows |-> C * R, cols |-> N]

\* np.zeros([emg_data.shape[0] * extension_factor,
\*           emg_data.shape[1] + extension_factor - 1])
extended_alloc(C, N, R) == [rows |-> C * R, cols |-> N + R - 1]

\* extend_emg(extended_emg, emg_data, extension_factor): the array handed
\* over, filled with the delayed copies of the channels
extend_emg(extended_emg, C, N, R) ==
    IF C = 0 \/ N = 0 THEN [status |-> "InvalidShape", rows |-> 0, cols |-> 0]
    ELSE [status |-> "ok", rows |-> extended_emg.rows, cols |-> extended_emg.cols]

\* the states before the call, one for each input
InitExtend ==
    /\ Constructed
    /\ pc = "extend_emg"
    /\ \E C \in ChannelCounts, N \in SampleCounts, R \in ExtensionFactors :
          loop = [C |-> C, N |-> N, R |-> R,
                  out |-> [status |-> "pending", rows |-> 0, cols |-> 0]]

ExtendEmg ==
    /\ pc = "extend_emg"
    /\ loop.out.status = "pending"
    /\ loop' = [loop EXCEPT
                   !.out = extend_emg(extended_alloc(loop.C, loop.N, loop.R),
                                      loop.C, loop.N, loop.R)]
    /\ UNCHANGED <<MUedition, fsamp, session, Backup, mu_checkboxes, checked,
                   graphstart, graphend, selection_tool, pc, hist>>

NextExtend == ExtendEmg

SpecExtend == InitExtend /\ [][NextExtend]_vars

-----------------------------------------------------------------------------
(* Spike Classifier (4.4): the classification update_all_mu_filters_button_ *)
(* pushed runs on a recomputed pulse train.  A trace is given by its        *)
(* samples above the baseline: a function from sample indices to amplitudes,*)
(* 0 at every other sample; the samples lie inside the trace.  The division *)
(* of the trace by the mean of its top peaks is by a positive number and    *)
(* changes neither the order of the amplitudes nor the clusters.            *)

\* the samples of a trace that can rise above the baseline
CandidateSamples == {100, 300, 305, 306, 600}
Traces == [CandidateSamples -> 0 .. MaxAmp]
\* sampling rates of the recordings
RateSet == {1000, 2000, 2048}

\* pulse_train[s]
At(x, s) == IF s \in DOMAIN x THEN x[s] ELSE 0

RECURSIVE SumOf(_, _)
SumOf(S, x) ==
    IF S = {} THEN 0
    ELSE LET p == CHOOSE q \in S : TRUE IN x[p] + SumOf(S \ {p}, x)

\* round(0.005 * fsamp): Python rounds a half to the even neighbour
distance(fs) ==
    LET q == fs \div 200
        r == fs % 200
    IN IF r < 100 THEN q
       ELSE IF r > 100 THEN q + 1
       ELSE IF q % 2 = 0 THEN q ELSE q + 1

\* the last sample of the plateau that starts at s
RightEdge(x, s) ==
    Min({e \in DOMAIN x : /\ e >= s
                          /\ \A j \in s .. e : At(x, j) = x[s]
                          /\ At(x, e + 1) # x[s]})

\* scipy.signal.find_peaks, local maxima: a sample above its left neighbour
\* whose plateau ends above its right neighbour; the middle of the plateau
local_maxima(x) ==
    {(s + RightEdge(x, s)) \div 2 :
        s \in {t \in DOMAIN x : /\ At(x, t - 1) < x[t]
                                /\ At(x, RightEdge(x, t) + 1) < x[t]}}

\* a peak selection that ignores the distance
select_all(U, keep, x, d) == {keep}

\* scipy.signal.find_peaks, distance: the peaks are visited from the highest
\* to the lowest, and a peak still kept removes the peaks closer than d; the
\* order among peaks of equal height is that of an unstable sort
RECURSIVE select_by_peak_distance(_, _, _, _)
select_by_peak_distance(U, keep, x, d) ==
    IF U = {} THEN {keep}
    ELSE LET top == {p \in U : \A q \in U : x[q] <= x[p]}
         IN UNION {IF p \in keep
                   THEN select_by_peak_distance(U \ {p},
                            {q \in keep : q = p \/ Abs(q - p) >= d}, x, d)
                   ELSE select_by_peak_distance(U \ {p}, keep, x, d) : p \in top}

\* find_peaks(pulse_train, distance = d): the possible peak sets
find_peaks(x, d) ==
    select_by_peak_distance(local_maxima(x), local_maxima(x), x, d)

\* a partition of the peaks at amplitude t that Lloyd's iteration leaves as it
\* is: every peak is at least as near to the mean of its cluster as to the other
Stable(peaks, x, t) ==
    LET L  == {p \in peaks : x[p] < t}
        H  == peaks \ L
        nL == Cardinality(L)
        nH == Cardinality(H)
        m2 == SumOf(L, x) * nH + SumOf(H, x) * nL
    IN /\ \A p \in L : 2 * x[p] * nL * nH <= m2
       /\ \A p \in H : 2 * x[p] * nL * nH >= m2

\* KMeans(n_clusters=2) on the peak amplitudes and peaks[labels ==
\* high_centroid_idx]: the possible high clusters.  Peaks of one single
\* amplitude all get label 0, and argmax of two equal centroids is 0.
high_cluster(peaks, x) ==
    LET vals == {x[p] : p \in peaks}
    IN IF Cardinality(vals) = 1 THEN {peaks}
       ELSE {{p \in peaks : x[p] >= t} :
                t \in {v \in vals : v # Min(vals) /\ Stable(peaks, x, v)}}

\* spikes[pulse_train[spikes] <= mean + 3 * std]
within_threshold(spikes, x) ==
    LET n == Cardinality(spikes)
        S == SumOf(spikes, x)
        Q == SumOf(spikes, [p \in spikes |-> x[p] * x[p]])
    IN {p \in spikes : \/ n * x[p] <= S
                       \/ (n * x[p] - S) * (n * x[p] - S) <= 9 * (n * Q - S * S)}

\* the discharge times the classification can store for the trace
spike_classifier(x, fs) ==
    {SortedSeq(IF Cardinality(peaks) >= 2 THEN within_threshold(spikes, x) ELSE peaks) :
        <<peaks, spikes>> \in
            UNION {{<<pk, sp>> : sp \in IF Cardinality(pk) >= 2
                                        THEN high_cluster(pk, x) ELSE {pk}} :
                   pk \in find_peaks(x, distance(fs))}}

InitClassify ==
    /\ Constructed
    /\ pc = "find_peaks"
    /\ loop \in [fsamp : RateSet, pulse_train : Traces, spikes : {<<>>}]

Classify ==
    /\ pc = "find_peaks"
    /\ pc' = "classified"
    /\ \E sp \in spike_classifier(loop.pulse_train, loop.fsamp) :
           loop' = [loop EXCEPT !.spikes = sp]
    /\ UNCHANGED <<MUedition, fsamp, session, Backup, mu_checkboxes, checked,
                   graphstart, graphend, selection_tool, hist>>

NextClassify == Classify

SpecClassify == InitClassify /\ [][NextClassify]_vars

-----------------------------------------------------------------------------
(* Separator (4.3): fixedpointalg of the library, one requested unit.  Its  *)
(* code is not part of the sources at hand; the state machine Init ->       *)
(* Iterate -> Converged | MaxIterExceeded is modelled from the              *)
(* specification.  A weight vector of unit norm is a non-zero integer; the  *)
(* whitened signal, which the model does not hold, decides the update.      *)

Weights == (-MaxWeight .. MaxWeight) \ {0}
IterCaps == 1 .. MaxIter
\* convergence tolerance: the weights agree up to their sign
Tolerance == 1

\* the sign-corrected distance of two weight vectors
SignCorrected(a, b) == IF Abs(a - b) <= Abs(a + b) THEN Abs(a - b) ELSE Abs(a + b)

\* a Separator that hands no weight vector over at the iteration cap
weights_discarded(w) == 0

\* MaxIterExceeded is not fatal: the last weight vector is still used
weights_at_cap(w) == w

InitSeparator ==
    /\ Constructed
    /\ pc = "Init"
    /\ loop \in [w : Weights, maxiter : IterCaps, k : {0}, out : {0}]

SeparatorStart ==
    /\ pc = "Init"
    /\ pc' = "Iterate"
    /\ UNCHANGED <<MUedition, fsamp, session, Backup, mu_checkboxes, checked,
                   graphstart, graphend, selection_tool, loop, hist>>

\* one update w <- E[X g(a)] - E[g'(a)] w, renormalised, and the stop test
SeparatorIterate ==
    /\ pc = "Iterate"
    /\ \E w_new \in Weights :
        IF SignCorrected(w_new, loop.w) < Tolerance
        THEN /\ pc' = "Converged"
             /\ loop' = [loop EXCEPT !.w = w_new, !.k = @ + 1, !.out = w_new]
        ELSE IF loop.k + 1 >= loop.maxiter
        THEN /\ pc' = "MaxIterExceeded"
             /\ loop' = [loop EXCEPT !.w = w_new, !.k = @ + 1,
                                     !.out = weights_at_cap(w_new)]
        ELSE /\ pc' = "Iterate"
             /\ loop' = [loop EXCEPT !.w = w_new, !.k = @ + 1]
    /\ UNCHANGED <<MUedition, fsamp, session, Backup, mu_checkboxes, checked,
                   graphstart, graphend, selection_tool, hist>>

NextSeparator == SeparatorStart \/ SeparatorIterate

\* the Separator runs to its end once it is called
SpecSeparator == InitSeparator /\ [][NextSeparator]_vars /\ WF_vars(NextSeparator)

-----------------------------------------------------------------------------
(* gui/recent_datasets_manager.py: the list of recent datasets.  An entry   *)
(* is its filepath and its filesize, from which its other fields derive.    *)

Filepaths == 1 .. NPaths
Filesizes == 1 .. MaxFilesize

\* any(d["filepath"] == filepath for d in self.recent_datasets)
dataset_exists(recent, filepath) == \E i \in DOMAIN recent : recent[i].filepath = filepath

\* an add_dataset that keeps the entry the file already has
add_dataset_keeping(recent, filepath, filesize) ==
    LET grown == <<[filepath |-> filepath, filesize |-> filesize]>> \o recent
    IN IF Len(grown) > max_entries THEN SubSeq(grown, 1, max_entries) ELSE grown

\* add_dataset: drop the entry of the filepath, insert(0, entry), truncate
add_dataset(recent, filepath, filesize) ==
    LET others  == SelectSeq(recent, LAMBDA d : d.filepath # filepath)
        grown   == <<[filepath |-> filepath, filesize |-> filesize]>> \o others
    IN IF Len(grown) > max_entries THEN SubSeq(grown, 1, max_entries) ELSE grown

\* remove_dataset
remove_dataset(recent, filepath) == SelectSeq(recent, LAMBDA d : d.filepath # filepath)

\* __init__ without a config file: load_recent_datasets leaves the list empty
InitRecent ==
    /\ Constructed
    /\ pc = "recent"
    /\ loop = [recent_datasets |-> <<>>, last |-> "init", filepath |-> 0]

RecentFrame ==
    UNCHANGED <<MUedition, fsamp, session, Backup, mu_checkboxes, checked,
                graphstart, graphend, selection_tool, pc, hist>>

AddDataset ==
    /\ pc = "recent"
    /\ \E p \in Filepaths, size \in Filesizes :
           loop' = [recent_datasets |-> add_dataset(loop.recent_datasets, p, size),
                    last |-> "add_dataset", filepath |-> p]
    /\ RecentFrame

RemoveDataset ==
    /\ pc = "recent"
    /\ \E p \in Filepaths :
           loop' = [recent_datasets |-> remove_dataset(loop.recent_datasets, p),
                    last |-> "remove_dataset", filepath |-> p]
    /\ RecentFrame

ClearRecentDatasets ==
    /\ pc = "recent"
    /\ loop' = [recent_datasets |-> <<>>, last |-> "clear_recent_datasets", filepath |-> 0]
    /\ RecentFrame

NextRecent == AddDataset \/ RemoveDataset \/ ClearRecentDatasets

SpecRecent == InitRecent /\ [][NextRecent]_vars

-----------------------------------------------------------------------------
(* gui/VisualizationStorage.py: the stored list of recent visualizations.   *)
(* The list lives in the storage file; every call reads it and writes it    *)
(* back.  An entry is its filepath, its viz_state (None when the caller     *)
(* passes none) and its id, the second of its timestamp.                    *)

MAX_STORED_VISUALIZATIONS == 10

VizPaths == 1 .. NVizPaths
VizStates == {"None", "captured"}

\* an add_visualization that inserts the entry whether or not the file is stored
add_visualization_front(visualizations, filepath, viz_state, ts) ==
    LET grown == <<[filepath |-> filepath, viz_state |-> viz_state, id |-> ts]>>
                     \o visualizations
    IN IF Len(grown) > MAX_STORED_VISUALIZATIONS
       THEN SubSeq(grown, 1, MAX_STORED_VISUALIZATIONS) ELSE grown

\* add_visualization: the entry of the filepath is replaced where it is, a new
\* filepath is inserted at index 0; then the list is trimmed
add_visualization(visualizations, filepath, viz_state, ts) ==
    LET new_viz  == [filepath |-> filepath, viz_state |-> viz_state, id |-> ts]
        existing == {i \in DOMAIN visualizations : visualizations[i].filepath = filepath}
        grown    == IF existing # {}
                    THEN [visualizations EXCEPT ![Min(existing)] = new_viz]
                    ELSE <<new_viz>> \o visualizations
    IN IF Len(grown) > MAX_STORED_VISUALIZATIONS
       THEN SubSeq(grown, 1, MAX_STORED_VISUALIZATIONS) ELSE grown

\* remove_visualization: every entry of that id goes
remove_visualization(visualizations, viz_id) ==
    SelectSeq(visualizations, LAMBDA viz : viz.id # viz_id)

\* the list after the files k, ..., 1 have been stored, one a second
StoredFiles(k) == [i \in 1 .. k |-> [filepath |-> k + 1 - i, viz_state |-> "captured",
                                     id |-> k + 1 - i]]

InitStorage ==
    /\ Constructed
    /\ pc = "storage"
    /\ \E k \in 0 .. MAX_STORED_VISUALIZATIONS :
           loop = [visualizations |-> StoredFiles(k), before |-> StoredFiles(k),
                   now |-> NVizPaths, last |-> "init", filepath |-> 0, n |-> 0]

StorageAddVisualization ==
    /\ pc = "storage"
    /\ loop.n < MaxStoreOps
    /\ \E p \in VizPaths, st \in VizStates, ts \in {loop.now, loop.now + 1} :
           loop' = [visualizations |-> add_visualization(loop.visualizations, p, st, ts),
                    before |-> loop.visualizations, now |-> ts,
                    last |-> "add_visualization", filepath |-> p, n |-> loop.n + 1]
    /\ RecentFrame

StorageRemoveVisualization ==
    /\ pc = "storage"
    /\ loop.n < MaxStoreOps
    /\ \E viz_id \in 1 .. loop.now :
           loop' = [loop EXCEPT
                       !.visualizations = remove_visualization(@, viz_id),
                       !.before = loop.visualizations,
                       !.last = "remove_visualization", !.filepath = 0, !.n = @ + 1]
    /\ RecentFrame

NextStorage == StorageAddVisualization \/ StorageRemoveVisualization

SpecStorage == InitStorage /\ [][NextStorage]_vars

-----------------------------------------------------------------------------
(* gui/DecompositionApp.py: the start button, the worker threads and the    *)
(* visualization storage.  File f stands for the recording f and for its    *)
(* output file f_output_decomp.mat.  A worker is a record of self.threads'  *)
(* history: its kind, its file and whether its finished or error signal has *)
(* been handled; the signals of a worker are handled on the GUI thread,     *)
(* after the handler that started the worker has returned.                  *)

AppFiles == 1 .. NAppFiles

\* the workers of a kind whose signal has not been handled
Pending(kind) ==
    {w \in DOMAIN loop.workers : loop.workers[w].kind = kind /\ ~loop.workers[w].handled}

\* __init__ without data; the storage file holds the entries of earlier sessions
InitApp ==
    /\ Constructed
    /\ pc = "app"
    /\ \E k \in 0 .. NAppFiles :
           loop = [filename |-> 0, start_button |-> FALSE, workers |-> <<>>,
                   threads |-> {}, decomp_worker |-> 0, decomposition_result |-> FALSE,
                   visualizations |-> StoredFiles(k), now |-> NAppFiles,
                   last |-> "init", saved |-> 0, viz_data |-> <<>>]

\* set_data and update_ui_with_loaded_data
SetData ==
    /\ pc = "app"
    /\ \E f \in AppFiles :
           loop' = [loop EXCEPT !.filename = f, !.start_button = TRUE, !.last = "set_data"]
    /\ RecentFrame

\* a click on the enabled start button
StartButtonPushed ==
    /\ pc = "app"
    /\ loop.start_button
    /\ loop.filename # 0
    /\ Cardinality({w \in DOMAIN loop.workers : loop.workers[w].kind = "decomp"}) < MaxWorkers
    /\ LET w == Len(loop.workers) + 1
       IN loop' = [loop EXCEPT
                      !.start_button = FALSE,
                      !.workers = Append(@, [kind |-> "decomp", file |-> loop.filename,
                                             handled |-> FALSE]),
                      !.decomp_worker = w,
                      !.threads = @ \cup {w},
                      !.last = "start_button_pushed"]
    /\ RecentFrame

\* the finished signal of a decomposition worker: the result is saved in the
\* background under the name of the file now loaded, the visualization state
\* is stored, the start button is enabled again
OnDecompositionComplete ==
    /\ pc = "app"
    /\ \E w \in Pending("decomp") :
        LET s == Len(loop.workers) + 1
        IN loop' = [loop EXCEPT
                       !.workers = Append([@ EXCEPT ![w].handled = TRUE],
                                          [kind |-> "save", file |-> loop.filename,
                                           handled |-> FALSE]),
                       !.decomposition_result = TRUE,
                       !.visualizations =
                           add_visualization(@, loop.filename, "captured", loop.now + 1),
                       !.now = @ + 1,
                       !.start_button = TRUE,
                       !.threads = (@ \cup {s}) \ {loop.decomp_worker},
                       !.last = "on_decomposition_complete"]
    /\ RecentFrame

OnDecompositionError ==
    /\ pc = "app"
    /\ \E w \in Pending("decomp") :
           loop' = [loop EXCEPT !.workers[w].handled = TRUE,
                                !.start_button = TRUE,
                                !.threads = @ \ {loop.decomp_worker},
                                !.last = "on_decomposition_error"]
    /\ RecentFrame

\* the finished signal of a save worker
OnSaveFinished ==
    /\ pc = "app"
    /\ \E w \in Pending("save") :
        LET viz == add_visualization(loop.visualizations, loop.workers[w].file,
                                     "None", loop.now + 1)
        IN loop' = [loop EXCEPT !.workers[w].handled = TRUE,
                                !.visualizations = viz,
                                !.now = @ + 1,
                                !.saved = loop.workers[w].file,
                                !.viz_data = viz[1],
                                !.threads = @ \ {w},
                                !.last = "on_save_finished"]
    /\ RecentFrame

OnSaveError ==
    /\ pc = "app"
    /\ \E w \in Pending("save") :
           loop' = [loop EXCEPT !.workers[w].handled = TRUE,
                                !.threads = @ \ {w},
                                !.last = "on_save_error"]
    /\ RecentFrame

\* the save visualization button
SaveVisualization ==
    /\ pc = "app"
    /\ loop.decomposition_result
    /\ loop.now < NAppFiles + 2 * MaxWorkers
    /\ loop' = [loop EXCEPT
                   !.visualizations =
                       add_visualization(@, loop.filename, "captured", loop.now + 1),
                   !.now = @ + 1,
                   !.last = "save_visualization"]
    /\ RecentFrame

NextApp ==
    \/ SetData
    \/ StartButtonPushed
    \/ OnDecompositionComplete
    \/ OnDecompositionError
    \/ OnSaveFinished
    \/ OnSaveError
    \/ SaveVisualization

SpecApp == InitApp /\ [][NextApp]_vars

-----------------------------------------------------------------------------
(* save_button_pushed: the compaction it runs, in place, before it writes    *)
(* the file                                                                  *)

\* del d[key]
Del(d, k) == [x \in (DOMAIN d) \ {k} |-> d[x]]

\* a slip that leaves the records of the higher units at their indices
KeepAbove(d, g, shift_mu, top) == d

\* shift higher motor units down: the records of shift_mu .. top of grid g
\* that exist move to the index below
RECURSIVE ShiftDown(_, _, _, _)
ShiftDown(d, g, shift_mu, top) ==
    IF shift_mu > top THEN d
    ELSE ShiftDown(IF <<g, shift_mu>> \in DOMAIN d
                   THEN Del(Put(d, <<g, shift_mu - 1>>, d[<<g, shift_mu>>]), <<g, shift_mu>>)
                   ELSE d,
                   g, shift_mu + 1, top)

\* the units of grid g from the last to the first: rows is array_pulse_train,
\* the rows the grid had when its turn came; a flagged unit loses its row and
\* its records, and the records above it are shifted
RECURSIVE save_grid(_, _, _, _, _)
save_grid(S, rows, fs, g, mu) ==
    IF mu = 0 THEN S
    ELSE IF IsFlagged(rows[mu], Get(S.DT, <<g, mu>>, EmptyArr), fs)
    THEN save_grid([PT |-> [S.PT EXCEPT ![g] = SubSeq(@, 1, mu - 1)
                                                  \o SubSeq(@, mu + 1, Len(@))],
                    DT |-> ShiftDown(Del(S.DT, <<g, mu>>), g, mu + 1, Len(rows)),
                    SV |-> ShiftDown(Del(S.SV, <<g, mu>>), g, mu + 1, Len(rows)),
                    SC |-> ShiftDown(Del(S.SC, <<g, mu>>), g, mu + 1, Len(rows))],
                   rows, fs, g, mu - 1)
    ELSE save_grid(S, rows, fs, g, mu - 1)

\* the session after the loop has processed the grids g .. n
RECURSIVE save_compact(_, _, _, _)
save_compact(S, fs, g, n) ==
    IF g > n THEN S
    ELSE save_compact(save_grid(S, S.PT[g], fs, g, Len(S.PT[g])), fs, g + 1, n)

-----------------------------------------------------------------------------
(* Navigation (zoom, scroll) and the windows of the full-signal extension.   *)
(* A recording of NavLen samples is imported and a unit is checked; the      *)
(* trains the extension rewrites are not held here, only the window          *)
(* arithmetic.  Times are exact integers: one sample interval is             *)
(* 20 ^ MaxNav units, which every handler divides by at most 20.             *)

\* MUedition["edition"]["time"][i], an evenly spaced axis starting at 0
time(i) == i * (20 ^ MaxNav)

\* np.where((time > graphstart) & (time < graphend))[0]
current_idx(gs, ge) == {i \in 0 .. (NavLen - 1) : time(i) > gs /\ time(i) < ge}

\* after the import: the full view, no extension run yet
InitNavigate ==
    /\ MUedition = TRUE
    /\ fsamp = 2
    /\ Pulsetrain = <<>>
    /\ Dischargetimes = <<>>
    /\ silval = <<>>
    /\ silvalcon = <<>>
    /\ Backup = [lock |-> 0, Pulsetrain |-> NoneTrain, Dischargetimes |-> EmptyArr]
    /\ mu_checkboxes = <<>>
    /\ checked = {}
    /\ selection_tool = <<>>
    /\ hist = [n |-> 0, imports |-> 1, owner |-> NoUnit, op |-> "import",
               unit |-> NoUnit, prePT |-> NoneTrain, preDT |-> EmptyArr,
               lockAtStart |-> 0, flagged |-> {}, extPT |-> NoneTrain,
               extDT |-> EmptyArr, undoEdit |-> FALSE, undoOwner |-> NoUnit,
               cancelled |-> FALSE, done |-> <<>>, removed |-> 0, grids |-> 0,
               wins |-> <<>>]
    /\ graphstart = time(0)
    /\ graphend = time(NavLen - 1)
    /\ pc = "idle"
    /\ loop = [nav |-> 0, cur |-> {}, step |-> 0, idx |-> {}, j |-> 0,
               trips |-> 0]

ZoomInButtonPushed ==
    /\ pc = "idle" /\ loop.nav < MaxNav
    /\ MUedition /\ graphend # 0
    /\ LET duration == graphend - graphstart
           center == graphstart + duration \div 2
           zoomed == (duration * 8) \div 10
       IN /\ graphstart' = center - zoomed \div 2
          /\ graphend' = center + zoomed \div 2
    /\ loop' = [loop EXCEPT !.nav = @ + 1]
    /\ UNCHANGED <<MUedition, fsamp, session, Backup, mu_checkboxes, checked,
                   selection_tool, pc, hist>>

ZoomOutButtonPushed ==
    /\ pc = "idle" /\ loop.nav < MaxNav
    /\ MUedition /\ graphend # 0
    /\ LET duration == graphend - graphstart
           center == graphstart + duration \div 2
           zoomed == (duration * 15) \div 10
       IN IF zoomed > time(NavLen - 1) - time(0)
          THEN /\ graphstart' = time(0)
               /\ graphend' = time(NavLen - 1)
          ELSE /\ graphstart' = center - zoomed \div 2
               /\ graphend' = center + zoomed \div 2
    /\ loop' = [loop EXCEPT !.nav = @ + 1]
    /\ UNCHANGED <<MUedition, fsamp, session, Backup, mu_checkboxes, checked,
                   selection_tool, pc, hist>>

\* scroll_left_button_pushed (dir = -1) and scroll_right_button_pushed (dir = 1)
ScrollButtonPushed(dir) ==
    /\ pc = "idle" /\ loop.nav < MaxNav
    /\ MUedition /\ graphend # 0
    /\ LET duration == graphend - graphstart
           step == (5 * duration) \div 100
       IN IF dir = -1
          THEN IF graphstart - step < time(0)
               THEN /\ graphstart' = time(0)
                    /\ graphend' = time(0) + duration
               ELSE /\ graphstart' = graphstart - step
                    /\ graphend' = (graphstart - step) + duration
          ELSE IF graphend + step > time(NavLen - 1)
               THEN /\ graphend' = time(NavLen - 1)
                    /\ graphstart' = time(NavLen - 1) - duration
               ELSE /\ graphend' = graphend + step
                    /\ graphstart' = (graphend + step) - duration
    /\ loop' = [loop EXCEPT !.nav = @ + 1]
    /\ UNCHANGED <<MUedition, fsamp, session, Backup, mu_checkboxes, checked,
                   selection_tool, pc, hist>>

\* extend_mu_filter_button_pushed up to the forward loop's range(...): the
\* division by a step of 0 raises, after the view has been zoomed out
ExtendFullSignal ==
    /\ pc = "idle"
    /\ MUedition
    /\ LET cur == current_idx(graphstart, graphend)
           step == Cardinality(cur) \div 2
       IN IF cur = {}
          THEN UNCHANGED <<graphstart, graphend, pc>>
               /\ loop' = [loop EXCEPT !.cur = {}, !.step = 0, !.idx = {},
                                       !.j = 0, !.trips = 0]
          ELSE /\ graphstart' = time(0)
               /\ graphend' = time(NavLen - 1)
               /\ IF step = 0
                  THEN /\ pc' = "raised"
                       /\ loop' = [loop EXCEPT !.cur = cur, !.step = 0, !.idx = cur,
                                               !.j = 0, !.trips = 0]
                  ELSE /\ pc' = "forward"
                       /\ loop' = [loop EXCEPT
                                     !.cur = cur, !.step = step, !.idx = cur, !.j = 0,
                                     !.trips = (NavLen - (CHOOSE x \in cur : \A y \in cur : y <= x)) \div step]
    /\ UNCHANGED <<MUedition, fsamp, session, Backup, mu_checkboxes, checked,
                   selection_tool, hist>>

\* one pass of the forward or of the backward loop, or the end of a loop
ExtendFullSignalStep ==
    /\ pc \in {"forward", "backward"}
    /\ LET moved == IF pc = "forward"
                    THEN {i + loop.step : i \in loop.idx} \cap (0 .. (NavLen - 1))
                    ELSE {i - loop.step : i \in loop.idx} \cap (0 .. (NavLen - 1))
           over == loop.j >= loop.trips \/ moved = {}
       IN IF ~over
          THEN /\ loop' = [loop EXCEPT !.idx = moved, !.j = @ + 1]
               /\ UNCHANGED pc
          ELSE IF pc = "forward"
               THEN /\ pc' = "backward"
                    /\ loop' = [loop EXCEPT !.idx = loop.cur, !.j = 0,
                                            !.trips = Min(loop.cur) \div loop.step]
               ELSE /\ pc' = "idle"
                    /\ loop' = [loop EXCEPT !.idx = {}, !.j = 0, !.trips = 0]
    /\ UNCHANGED <<MUedition, fsamp, session, Backup, mu_checkboxes, checked,
                   graphstart, graphend, selection_tool, hist>>

NextNavigate ==
    \/ ZoomInButtonPushed
    \/ ZoomOutButtonPushed
    \/ ScrollButtonPushed(-1)
    \/ ScrollButtonPushed(1)
    \/ ExtendFullSignal
    \/ ExtendFullSignalStep

SpecNavigate == InitNavigate /\ [][NextNavigate]_vars

-----------------------------------------------------------------------------
(* Properties *)

\* the step is the user operation op
StepOf(op) == hist'.n = hist.n + 1 /\ hist'.op = op


SameUnit(k) ==
    /\ Row(Pulsetrain', k) = Row(Pulsetrain, k)
    /\ (k \in DOMAIN Dischargetimes') = (k \in DOMAIN Dischargetimes)
    /\ Get(Dischargetimes', k, EmptyArr) = Get(Dischargetimes, k, EmptyArr)

SameCounts ==
    /\ Len(Pulsetrain') = Len(Pulsetrain)
    /\ \A g \in DOMAIN Pulsetrain : Len(Pulsetrain'[g]) = Len(Pulsetrain[g])

Holds(k, pt, dt) ==
    /\ Row(Pulsetrain, k) = pt
    /\ Get(Dischargetimes, k, EmptyArr) = dt

\* C1: undo on a unit directly after a completed edit of that unit (region
\* edit, outlier removal, filter update, full-signal extension, flagging)
\* restores the pulse train and the discharge times the unit had when the
\* edit began.
C1_UndoRestores ==
    (hist.op = "undo" /\ hist.undoEdit) => Holds(hist.unit, hist.prePT, hist.preDT)

\* C2: undo changes no pulse train and no discharge times when the backup is
\* empty or holds the snapshot of a unit other than the one undo is applied to.
C2_UndoForeign ==
    [][(/\ StepOf("undo")
        /\ \/ Backup.Pulsetrain = NoneTrain
           \/ checked = {}
           \/ hist.owner # FirstChecked(mu_checkboxes, checked))
       => UNCHANGED <<Pulsetrain, Dischargetimes>>]_vars

\* the units of grid g that are not in F, in their order
Survivors(PT, F, g) ==
    SelectSeq([m \in 1 .. Len(PT[g]) |-> m], LAMBDA m : <<g, m>> \notin F)

\* the record d' holds at key new what d held at key old, or neither holds any
Moved(d, old, dd, new) ==
    /\ (old \in DOMAIN d) = (new \in DOMAIN dd)
    /\ old \in DOMAIN d => dd[new] = d[old]

\* C3: a compaction that is not cancelled and directly follows the flagging
\* of the set F of units (no other unit being in the flagged form) leaves in
\* every grid exactly the units not in F, in their order, each with the pulse
\* train, discharge times, SIL and continuous SIL it had.
C3_Compaction ==
    [][(/\ StepOf("remove_flagged")
        /\ ~hist'.cancelled
        /\ hist.op \in {"flag", "flag1"}
        /\ \A k \in Keys(Pulsetrain) \ hist.flagged :
              ~IsFlagged(Row(Pulsetrain, k), Get(Dischargetimes, k, EmptyArr), fsamp))
       => /\ Len(Pulsetrain') = Len(Pulsetrain)
          /\ \A g \in DOMAIN Pulsetrain :
              LET surv == Survivors(Pulsetrain, hist.flagged, g)
              IN /\ Len(Pulsetrain'[g]) = Len(surv)
                 /\ \A j \in 1 .. Len(surv) :
                     /\ Pulsetrain'[g][j] = Pulsetrain[g][surv[j]]
                     /\ Moved(Dischargetimes, <<g, surv[j]>>, Dischargetimes', <<g, j>>)
                     /\ Moved(silval, <<g, surv[j]>>, silval', <<g, j>>)
                     /\ Moved(silvalcon, <<g, surv[j]>>, silvalcon', <<g, j>>)]_vars

\* the first of two units of grid 1 was flagged and removed: the second one
\* is now the first
C3_Witness ==
    /\ hist.op = "remove_flagged"
    /\ ~hist.cancelled
    /\ hist.flagged = {<<1, 1>>}
    /\ Len(Pulsetrain) = NGrid
    /\ Len(Pulsetrain[1]) >= 1
    /\ <<1, 1>> \in DOMAIN silval

\* C4: a single-window filter update with the lock set replaces the unit's
\* pulse train by the recomputed one, keeps its discharge times and clears the
\* lock; with the lock not set it replaces the pulse train and the discharge
\* times, and the lock stays cleared.
C4_LockedUpdate ==
    [][StepOf("update") =>
        LET k == hist'.unit
        IN /\ Row(Pulsetrain', k) = hist'.extPT
           /\ Dischargetimes'[k] = IF Backup.lock = 1 THEN Dischargetimes[k]
                                   ELSE hist'.extDT
           /\ Backup'.lock = 0]_vars

\* the lock was set, and the discharge times kept are not the recomputed ones
C4_Witness ==
    /\ hist.op = "update"
    /\ hist.lockAtStart = 1
    /\ Backup.lock = 0
    /\ Dischargetimes[hist.unit] # hist.extDT
    /\ Row(Pulsetrain, hist.unit) = hist.extPT

\* a step of filter refinement: the single-window update, an iteration of the
\* full-signal extension, an iteration of update-all-filters
RefinementStep ==
    \/ StepOf("update")
    \/ pc = "extend" /\ pc' = "extend" /\ loop' # loop
    \/ pc = "upd_all" /\ pc' = "upd_all" /\ loop' # loop

\* C5: while the lock is set no step of filter refinement alters the
\* discharge times of any unit.
C5_LockKeepsTimes ==
    [][(Backup.lock = 1 /\ RefinementStep) =>
        \A k \in Keys(Pulsetrain) :
            Get(Dischargetimes', k, EmptyArr) = Get(Dischargetimes, k, EmptyArr)]_vars

\* C6: every unit with fewer than 3 discharge times has the stored SIL 0.
C6_SilZero ==
    \A k \in Keys(Pulsetrain) :
        Len(Get(Dischargetimes, k, EmptyArr).t) < 3 => Get(silval, k, 0) = 0

StrictlyIncreasing(t) == \A i \in 1 .. Len(t) - 1 : t[i] < t[i + 1]

\* C7: the discharge times of every unit are strictly increasing sample
\* indices in [0, pulse-train length).
C7_TimesValid ==
    \A k \in Keys(Pulsetrain) :
        LET t == Get(Dischargetimes, k, EmptyArr).t
        IN /\ StrictlyIncreasing(t)
           /\ \A i \in DOMAIN t : 0 <= t[i] /\ t[i] < Len(Row(Pulsetrain, k))

Counts(PT) == [g \in DOMAIN PT |-> Len(PT[g])]

\* r is the session as it is: the same number of units in every grid, the same
\* discharge times of every unit
SameContent(r) ==
    /\ Counts(r.PT) = Counts(Pulsetrain)
    /\ \A k \in Keys(Pulsetrain) :
        Get(r.DT, k, EmptyArr) = Get(Dischargetimes, k, EmptyArr)

\* C9: running remove-duplicates-within-grids (between-grids) again directly
\* after it has run leaves the number of units of every grid and the
\* discharge times of every unit as they are.
C9_Idempotent ==
    /\ hist.op = "dup_within" =>
         SameContent(within_grids(Pulsetrain, Dischargetimes, silval, silvalcon, fsamp, 1))
    /\ hist.op = "dup_between" =>
         SameContent(between_grids(Pulsetrain, Dischargetimes, silval, silvalcon, fsamp))

\* a duplicate was removed, and units of two grids are left
C9_Witness ==
    /\ hist.op \in {"dup_within", "dup_between"}
    /\ hist.removed > 0
    /\ \A g \in DOMAIN Pulsetrain : Len(Pulsetrain[g]) > 0

Batch == {"outl_all", "upd_all"}

\* every unit the batch has processed holds what its processing produced
DoneKept ==
    \A i \in DOMAIN hist.done :
        /\ Holds(hist.done[i].k, hist.done[i].pt, hist.done[i].dt)
        /\ Get(silval, hist.done[i].k, 0) = hist.done[i].sil

\* C10: in remove-outliers-all and update-all-filters, once the cancellation
\* has been seen before a unit, no unit is modified any more, and the units
\* processed before keep the pulse train, discharge times and SIL their
\* processing produced, to the end of the batch.
C10_CancelStops ==
    [][/\ (pc \in Batch /\ hist.cancelled) => UNCHANGED session
       /\ (pc \in Batch) => DoneKept']_vars

\* a batch was cancelled after its first unit and has ended
C10_Witness ==
    /\ hist.op = "batch_end"
    /\ hist.cancelled
    /\ Len(hist.done) = 1
    /\ Cardinality(Keys(Pulsetrain)) > 1
    /\ hist.extPT # NoneTrain

\* C11: a compaction cancelled part-way leaves the session with every grid it
\* had, and every unit of a grid not yet processed when the cancellation was
\* seen still present with its pulse train, discharge times and SIL.
C11_CancelKeepsGrids ==
    [][(StepOf("remove_flagged") /\ hist'.cancelled) =>
        /\ Len(Pulsetrain') = Len(Pulsetrain)
        /\ \A k \in Keys(Pulsetrain) :
             k[1] > hist'.grids =>
                /\ SameUnit(k)
                /\ Get(silval', k, 0) = Get(silval, k, 0)]_vars

\* C12: a failure while a batch processes one unit is caught for that unit:
\* the batch is left only through its normal end, after the Cancel button was
\* seen or every unit has had its turn.
C12_FailureIsolated ==
    [][(pc \in Batch /\ pc' \notin Batch) =>
        /\ hist'.op = "batch_end"
        /\ loop.cancelled \/ loop.i > Len(loop.ks)]_vars

\* the windows the forward (backward) loop of an extension has updated
WinsOf(phase) == SelectSeq(hist.wins, LAMBDA w : w.phase = phase)

\* C13: a full-signal extension from the window lo .. hi with the step of half
\* its width updates the windows shifted forward by the step up to the end of
\* the signal, then the windows shifted backward from the initial one down to
\* the start, and the initial window and the windows updated together hold
\* every sample of the recording.
C13_ExtensionCovers ==
    [][(pc = "extend" /\ pc' = "idle" /\ hist'.op \in {"edit", "mixed_edit"}) =>
        LET fw == WinsOf("fwd")
            bw == WinsOf("bwd")
        IN /\ hist.wins = fw \o bw
           /\ \A j \in 1 .. Len(fw) :
                /\ fw[j].lo = loop.lo + j * loop.step
                /\ fw[j].hi = Min({loop.hi + j * loop.step, SigLen - 1})
           /\ \A j \in 1 .. Len(bw) :
                /\ bw[j].lo = -Min({j * loop.step - loop.lo, 0})
                /\ bw[j].hi = loop.hi - j * loop.step
           /\ (loop.lo .. loop.hi)
                \cup UNION {w.lo .. w.hi : w \in Range(hist.wins)} = Samples]_vars

\* the operations that write no pulse train, discharge times or SIL
NonMutating == {"lock", "none", "raised"}

\* C14: from the first to the last step of a full-signal extension or of a
\* batch operation no other mutating operation starts.
C14_OneInFlight ==
    [][(pc \in {"extend"} \cup Batch /\ hist'.n = hist.n + 1) =>
        hist'.op \in NonMutating]_vars

\* the score of unit k as it is now: 0 with fewer than 3 discharge times,
\* else the silhouette of its pulse train
ScoreNow(k) ==
    IF Len(Get(Dischargetimes, k, EmptyArr).t) > 2 THEN getsil(Row(Pulsetrain, k)) ELSE 0

\* the units the operation just completed has written
Affected ==
    IF hist.op \in {"flag", "flag1"} THEN hist.flagged
    ELSE IF hist.op \in {"dup_within", "dup_between"} THEN Keys(Pulsetrain)
    ELSE IF hist.op \in {"edit", "update", "undo"} THEN {hist.unit} \cap Keys(Pulsetrain)
    ELSE {}

\* C15: after a completed mutating operation (outlier removal, flagging,
\* filter update, extension, undo, duplicate removal) the SIL stored for every
\* unit it has written is the score of the unit's current pulse train and
\* discharge times.
C15_SilRecomputed ==
    \A k \in Affected : k \in DOMAIN silval /\ silval[k] = ScoreNow(k)

HigherOfTwo(g, w) ==
    /\ Len(Pulsetrain[g]) = 2
    /\ IsDuplicate(Get(Dischargetimes, <<g, 1>>, EmptyArr).t,
                   Get(Dischargetimes, <<g, 2>>, EmptyArr).t, Round40(fsamp))
    /\ ScoreNow(<<g, w>>) > ScoreNow(<<g, 3 - w>>)

Partnerless(k) ==
    \A j \in Keys(Pulsetrain) \ {k} :
        ~IsDuplicate(Get(Dischargetimes, k, EmptyArr).t,
                     Get(Dischargetimes, j, EmptyArr).t, Round40(fsamp))

\* f maps units of grid g before the step to units of grid g after it, in
\* their order, each to one with its pulse train and discharge times
KeepsInOrder(f, g) ==
    /\ \A a, b \in DOMAIN f : a < b => f[a] < f[b]
    /\ \A a \in DOMAIN f :
          /\ Pulsetrain'[g][f[a]] = Pulsetrain[g][a]
          /\ Get(Dischargetimes', <<g, f[a]>>, EmptyArr)
               = Get(Dischargetimes, <<g, a>>, EmptyArr)

\* C18: between-grid duplicate removal keeps every grid; every unit without
\* a duplicate partner is still in its grid with its pulse train and
\* discharge times at its new index, and the units of a grid that are left
\* are units the grid had, in their order.
C18_PartnerlessKept ==
    [][StepOf("dup_between") =>
        /\ Len(Pulsetrain') = Len(Pulsetrain)
        /\ \A g \in DOMAIN Pulsetrain :
            LET old  == 1 .. Len(Pulsetrain[g])
                new  == 1 .. Len(Pulsetrain'[g])
                free == {m \in old : Partnerless(<<g, m>>)}
            IN /\ \E f \in [free -> new] : KeepsInOrder(f, g)
               /\ \E S \in SUBSET old :
                    /\ free \subseteq S
                    /\ Cardinality(S) = Len(Pulsetrain'[g])
                    /\ \E f \in [S -> new] : KeepsInOrder(f, g)]_vars

\* a flagged unit was removed as the duplicate of a unit of the other grid;
\* the unit after it, which has no partner, is now the first of its grid
C18_Witness ==
    /\ hist.op = "dup_between"
    /\ hist.removed = 1
    /\ Pulsetrain = << <<TrainC>>, <<TrainA>> >>
    /\ Dischargetimes[<<1, 1>>].t = getspikes(TrainC)
    /\ Dischargetimes[<<2, 1>>].t = getspikes(TrainA)

\* C19: scoring a unit with fewer than 3 discharge times stores the SIL 0
\* and an empty continuous SIL, without a single (time-index, value) pair.
C19_ScoreFewDischarges ==
    \A k \in Keys(Pulsetrain) :
        Len(Get(Dischargetimes, k, EmptyArr).t) < 3 =>
            LET r == calculate_silval(Pulsetrain, Dischargetimes, silval, silvalcon, k)
            IN /\ r.SV[k] = 0
               /\ r.SC[k] = <<>>

\* the trace of the scenario: discharges of one amplitude at 100, 300, 305, 600
ScenarioTrace == [s \in CandidateSamples |-> IF s = 306 THEN 0 ELSE 1]

C21_SeparatorTerminates ==
    <>[](/\ pc \in {"Converged", "MaxIterExceeded"}
         /\ loop.k <= loop.maxiter
         /\ loop.out = loop.w)

C21_Witness ==
    /\ pc = "MaxIterExceeded"
    /\ loop.maxiter = MaxIter
    /\ loop.k = loop.maxiter
    /\ loop.out = loop.w

\* C22: after any sequence of add_dataset, remove_dataset and
\* clear_recent_datasets the recent list has at most max_entries entries, no
\* two entries share a filepath, and directly after add_dataset(p) the entry
\* of p is at index 0 and dataset_exists(p) is true.
C22_RecentList ==
    pc = "recent" =>
        LET recent == loop.recent_datasets
        IN /\ Len(recent) <= max_entries
           /\ \A i, j \in DOMAIN recent :
                  recent[i].filepath = recent[j].filepath => i = j
           /\ loop.last = "add_dataset" =>
                  /\ recent # <<>>
                  /\ recent[1].filepath = loop.filepath
                  /\ dataset_exists(recent, loop.filepath)

\* a full list whose front entry has just been added
C22_Witness ==
    /\ pc = "recent"
    /\ loop.last = "add_dataset"
    /\ Len(loop.recent_datasets) = max_entries
    /\ loop.recent_datasets[1] = [filepath |-> 1, filesize |-> 2]
    /\ loop.recent_datasets[2].filepath = 3
    /\ loop.recent_datasets[3].filepath = 2

\* C23: after any sequence of add_visualization and remove_visualization the
\* stored list has at most MAX_STORED_VISUALIZATIONS entries and at most one
\* entry per filepath, and add_visualization with a filepath already stored
\* replaces that entry instead of adding a second one.
C23_StoredList ==
    pc = "storage" =>
        LET viz == loop.visualizations
        IN /\ Len(viz) <= MAX_STORED_VISUALIZATIONS
           /\ \A i, j \in DOMAIN viz : viz[i].filepath = viz[j].filepath => i = j
           /\ /\ loop.last = "add_visualization"
              /\ \E i \in DOMAIN loop.before : loop.before[i].filepath = loop.filepath
              => /\ Len(viz) = Len(loop.before)
                 /\ \A i \in DOMAIN viz :
                        IF loop.before[i].filepath = loop.filepath
                        THEN viz[i] = [filepath |-> loop.filepath,
                                       viz_state |-> viz[i].viz_state, id |-> loop.now]
                        ELSE viz[i] = loop.before[i]

\* a full list in which the entry of a stored file has just been replaced
C23_Witness ==
    /\ pc = "storage"
    /\ loop.last = "add_visualization"
    /\ Len(loop.before) = MAX_STORED_VISUALIZATIONS
    /\ loop.before[3].filepath = loop.filepath
    /\ loop.visualizations[3].id = loop.now
    /\ loop.n = MaxStoreOps

\* C24: the entry on_save_finished takes as the most recent one and emits
\* through visualization_saved is the entry of the file just saved.
C24_EmitsSavedFile ==
    pc = "app" /\ loop.last = "on_save_finished" =>
        loop.viz_data.filepath = loop.saved

\* C28: at most one decomposition worker runs at a time: while the signal of
\* a started worker has not been handled the start button is disabled,
\* whatever else happens (set_data included), and once it has been handled
\* the button is enabled and the worker is no longer in the threads list.
C28_OneWorker ==
    pc = "app" =>
        /\ Cardinality(Pending("decomp")) <= 1
        /\ Pending("decomp") # {} => ~loop.start_button
        /\ \A w \in DOMAIN loop.workers :
               loop.workers[w].kind = "decomp" /\ loop.workers[w].handled
                   => w \notin loop.threads
        /\ loop.last \in {"on_decomposition_complete", "on_decomposition_error"}
               => loop.start_button

\* C29: after the background save of an output file has finished, the entry
\* stored for that file still holds the visualization state captured when
\* the decomposition completed.
C29_VizStateKept ==
    pc = "app" /\ loop.last = "on_save_finished" =>
        \E i \in DOMAIN loop.visualizations :
            /\ loop.visualizations[i].filepath = loop.saved
            /\ loop.visualizations[i].viz_state = "captured"

\* C25: in every session state every key of the discharge-time, SIL and
\* continuous-SIL records is the key of a row of the pulse trains: no record
\* of a removed unit survives duplicate removal or compaction.
C25_KeysExist ==
    MUedition =>
        (DOMAIN Dischargetimes) \cup (DOMAIN silval) \cup (DOMAIN silvalcon)
            \subseteq Keys(Pulsetrain)

\* the same record, or the same absence of a record, for the unit k
SameAt(x, y, k) == (k \in DOMAIN x <=> k \in DOMAIN y) /\ (k \in DOMAIN x => x[k] = y[k])

\* the session as the compaction of save leaves it
Saved ==
    save_compact([PT |-> Pulsetrain, DT |-> Dischargetimes, SV |-> silval,
                  SC |-> silvalcon], fsamp, 1, Len(Pulsetrain))

\* C26: without cancellation the compaction of remove-flagged and the
\* compaction at the start of save give the same pulse-train rows per grid
\* and the same discharge-time, SIL and continuous-SIL records for every
\* surviving unit, in any session state.
C26_CompactionsAgree ==
    MUedition =>
        LET a == remove_flagged(Pulsetrain, Dischargetimes, silval, silvalcon,
                                fsamp, Len(Pulsetrain))
        IN /\ a.PT = Saved.PT
           /\ \A k \in Keys(a.PT) : /\ SameAt(a.DT, Saved.DT, k)
                                    /\ SameAt(a.SV, Saved.SV, k)
                                    /\ SameAt(a.SC, Saved.SC, k)

\* a session with a flagged first unit below a unit that survives and takes
\* its index and its records in both compactions
C26_Witness ==
    /\ MUedition
    /\ Len(Pulsetrain) = NGrid
    /\ Len(Pulsetrain[1]) = 2
    /\ <<1, 2>> \in DOMAIN Dischargetimes
    /\ <<1, 1>> \in DOMAIN Saved.DT
    /\ <<1, 1>> \in DOMAIN Saved.SV
    /\ IsFlagged(Pulsetrain[1][1], Get(Dischargetimes, <<1, 1>>, EmptyArr), fsamp)
    /\ <<1, 2>> \in DOMAIN silval
    /\ silval[<<1, 2>>] # Get(silval, <<1, 1>>, 0)
    /\ Saved.PT[1] = <<Pulsetrain[1][2]>>
    /\ Saved.DT[<<1, 1>>] = Dischargetimes[<<1, 2>>]
    /\ Saved.SV[<<1, 1>>] = silval[<<1, 2>>]
    /\ <<1, 2>> \notin DOMAIN Saved.SV

\* the unit k is recognisable as flagged for deletion
FlaggedNow(k) == IsFlagged(Row(Pulsetrain, k), Get(Dischargetimes, k, EmptyArr), fsamp)
FlaggedNext(k) ==
    /\ k \in Keys(Pulsetrain')
    /\ IsFlagged(Row(Pulsetrain', k), Get(Dischargetimes', k, EmptyArr), fsamp')

\* the steps that remove or renumber units, or replace the session
Renumbering ==
    \/ StepOf("import") \/ StepOf("remove_flagged")
    \/ StepOf("dup_within") \/ StepOf("dup_between")

\* C27: a unit flagged for deletion stays recognisable as flagged, with the
\* all-zero pulse train and the sentinel discharge times, through every step
\* that is not an undo, remove-outliers-all and update-all-filters included,
\* until units are removed or renumbered.
C27_FlagStays ==
    [][\A k \in Keys(Pulsetrain) :
          (FlaggedNow(k) /\ ~StepOf("undo") /\ ~Renumbering) => FlaggedNext(k)]_vars

\* C30: a full-signal extension started on a non-empty window ends without
\* error, a one-sample window and a window touching the signal start or end
\* included: the step that shifts the window is at least 1 while the loops
\* run, no loop runs more passes than the signal has samples, and the handler
\* never raises.
C30_ExtensionTerminates ==
    /\ pc # "raised"
    /\ pc \in {"forward", "backward"} =>
           loop.step >= 1 /\ loop.j <= loop.trips /\ loop.trips <= NavLen

====
